---- MODULE Spec2Model ----
(***************************************************************************)
(* A model of src/search_agent.py: the search-augmentation pipeline        *)
(* (run_ai_search_pipeline and its stages) and the REPL loop (main).       *)
(*                                                                         *)
(* Text is a sequence of one-character strings.  A Python value that may   *)
(* be None, a str, an int or a bool is a tagged record (None, Str, IntV,   *)
(* BoolV below), so that truthiness and "is None" are computed as Python    *)
(* computes them.  The replies of the external services (the language      *)
(* model, the search endpoint, the page fetch) are inputs of the actions.  *)
(***************************************************************************)
EXTENDS Integers, Sequences, FiniteSets, TLC

(* ------------------------------------------------------------------ *)
(* Bounds of the model                                                  *)
(* ------------------------------------------------------------------ *)

\* The most result blocks a search response document holds.
MaxBlocks == 5

\* The most input lines one REPL session accepts as user Turns.
MaxTurns == 3

(* ------------------------------------------------------------------ *)
(* Program constants                                                    *)
(* ------------------------------------------------------------------ *)

DUCKDUCKGO_MAX_RESULTS == 5

SEARCH_RETRY_LIMIT == 3

(* ------------------------------------------------------------------ *)
(* Python values and text                                               *)
(* ------------------------------------------------------------------ *)

None == [t |-> "None"]

Str(s) == [t |-> "str", v |-> s]

IntV(n) == [t |-> "int", v |-> n]

BoolV(b) == [t |-> "bool", v |-> b]

List(l) == [t |-> "list", v |-> l]

\* Python truthiness of None, a str, a list, an int or a bool.
Truthy(x) ==
    CASE x.t = "None" -> FALSE
      [] x.t = "str"  -> Len(x.v) > 0
      [] x.t = "list" -> Len(x.v) > 0
      [] x.t = "int"  -> x.v # 0
      [] x.t = "bool" -> x.v

UpperLetters ==
    << "A", "B", "C", "D", "E", "F", "G", "H", "I", "J", "K", "L", "M",
       "N", "O", "P", "Q", "R", "S", "T", "U", "V", "W", "X", "Y", "Z" >>

LowerLetters ==
    << "a", "b", "c", "d", "e", "f", "g", "h", "i", "j", "k", "l", "m",
       "n", "o", "p", "q", "r", "s", "t", "u", "v", "w", "x", "y", "z" >>

\* The capital letters of the second half of the characters a string of the
\* model can hold (U+00C0-U+00DE, the sign U+00D7 apart), and what
\* str.lower() makes of each.
UpperAccented ==
    << "À", "Á", "Â", "Ã", "Ä", "Å", "Æ", "Ç", "È", "É",
       "Ê", "Ë", "Ì", "Í", "Î", "Ï", "Ð", "Ñ", "Ò", "Ó",
       "Ô", "Õ", "Ö", "Ø", "Ù", "Ú", "Û", "Ü", "Ý", "Þ" >>

LowerAccented ==
    << "à", "á", "â", "ã", "ä", "å", "æ", "ç", "è", "é",
       "ê", "ë", "ì", "í", "î", "ï", "ð", "ñ", "ò", "ó",
       "ô", "õ", "ö", "ø", "ù", "ú", "û", "ü", "ý", "þ" >>

LowerChar(c) ==
    IF \E i \in 1..26 : UpperLetters[i] = c
    THEN LowerLetters[CHOOSE i \in 1..26 : UpperLetters[i] = c]
    ELSE IF \E i \in 1..Len(UpperAccented) : UpperAccented[i] = c
    THEN LowerAccented[CHOOSE i \in 1..Len(UpperAccented) : UpperAccented[i] = c]
    ELSE c

\* Lower leaving every character as it is (a comparison without .lower()).
Lower_AsTyped(s) == s

\* str.lower()
Lower(s) == [i \in 1..Len(s) |-> LowerChar(s[i])]

\* `sub in s`
Contains(s, sub) ==
    \E i \in 1..(Len(s) - Len(sub) + 1) : SubSeq(s, i, i + Len(sub) - 1) = sub

\* str.isspace() of one character, over the characters a string of the model
\* can hold (U+0000-U+00FF): blank, newline, tab, carriage return, form feed,
\* vertical tab, the four separators U+001C-U+001F, next line (U+0085) and
\* no-break space (U+00A0).
IsSpace(c) ==
    c \in {" ", "\n", "\t", "\r", "\f", "", "", "", "", "", "", " "}

\* str.strip()
RECURSIVE LStrip(_)
LStrip(s) == IF Len(s) > 0 /\ IsSpace(Head(s)) THEN LStrip(Tail(s)) ELSE s

RECURSIVE RStrip(_)
RStrip(s) ==
    IF Len(s) > 0 /\ IsSpace(s[Len(s)]) THEN RStrip(SubSeq(s, 1, Len(s) - 1)) ELSE s

Strip(s) == LStrip(RStrip(s))

\* The whitespace int() drops around the number: that of C's isspace (which
\* leaves out the separators U+001C-U+001F) and, of the characters past
\* U+007F, those of str.isspace(): next line and no-break space.
IsIntSpace(c) == c \in {" ", "\n", "\t", "\r", "\f", "", "", " "}

RECURSIVE IntLStrip(_)
IntLStrip(s) == IF Len(s) > 0 /\ IsIntSpace(Head(s)) THEN IntLStrip(Tail(s)) ELSE s

RECURSIVE IntRStrip(_)
IntRStrip(s) ==
    IF Len(s) > 0 /\ IsIntSpace(s[Len(s)]) THEN IntRStrip(SubSeq(s, 1, Len(s) - 1)) ELSE s

IntStrip(s) == IntLStrip(IntRStrip(s))

DigitChars == << "0", "1", "2", "3", "4", "5", "6", "7", "8", "9" >>

IsDigit(c) == \E d \in 1..10 : DigitChars[d] = c

DigitVal(c) == (CHOOSE d \in 1..10 : DigitChars[d] = c) - 1

RECURSIVE DigitsVal(_)
DigitsVal(s) ==
    IF Len(s) = 0 THEN 0
    ELSE 10 * DigitsVal(SubSeq(s, 1, Len(s) - 1)) + DigitVal(s[Len(s)])

\* The text of an integer, as the model writes it and as str(n) gives it.
RECURSIVE NatText(_)
NatText(n) ==
    IF n < 10 THEN << DigitChars[n + 1] >>
    ELSE Append(NatText(n \div 10), DigitChars[(n % 10) + 1])

IntText(n) == IF n < 0 THEN << "-" >> \o NatText(-n) ELSE NatText(n)

\* sys.int_info.default_max_str_digits: the most digits int() converts.
int_max_str_digits == 4300

\* int(s): surrounding whitespace is dropped, one sign is allowed, and the
\* rest must be decimal digits, at most int_max_str_digits of them, where one
\* underscore may stand between two digits ('0_1' is 1); anything else raises
\* ValueError.
IntBody(s) ==
    LET u == IntStrip(s)
    IN  IF Len(u) > 0 /\ u[1] \in {"+", "-"} THEN Tail(u) ELSE u

IsGroupChar(c) == IsDigit(c) \/ c = "_"

IntParses(s) ==
    LET b == IntBody(s)
    IN  /\ Len(b) > 0
        /\ IsDigit(b[1])
        /\ IsDigit(b[Len(b)])
        /\ \A i \in 1..Len(b) : IsGroupChar(b[i])
        /\ \A i \in 1..(Len(b) - 1) : ~(b[i] = "_" /\ b[i + 1] = "_")
        /\ Len(SelectSeq(b, IsDigit)) <= int_max_str_digits

IntOf(s) ==
    LET u == IntStrip(s)
        d == SelectSeq(IntBody(s), IsDigit)
    IN  IF u[1] = "-" THEN 0 - DigitsVal(d) ELSE DigitsVal(d)

(* ------------------------------------------------------------------ *)
(* State                                                                *)
(* ------------------------------------------------------------------ *)

VARIABLES
    pc,                        \* the position of the running code
    conversation_history,      \* the module-level list of Turns
    user_input,                \* main: the line input() returned
    world,                     \* main: what the services would answer this turn
    stdout,                    \* main: the user-visible messages printed
    last_user_prompt_content,  \* run_ai_search_pipeline: its argument
    generated_query,
    search_results_list,
    available_results,
    loop_n,                    \* the bound of range(min(len, SEARCH_RETRY_LIMIT))
    loop_i,                    \* the iterations of the for loop begun so far, less one
    attempt,                   \* select_best_search_result_id: its loop variable
    best_result_id,
    selected_result_details,
    page_content,
    pipeline_result,           \* what run_ai_search_pipeline returned
    ncalls,                    \* external calls issued so far, by kind
    selections,                \* what each select_best_search_result_id call returned
    tried,                     \* the candidates handed to the extractor, in order
    judged,                    \* the calls of is_content_relevant: text and verdict
    search_response,           \* perform_duckduckgo_search: what requests.get gave
    signal,                    \* main: where a KeyboardInterrupt was delivered
    fn_call,                   \* a single function called directly: name and inputs
    fn_result,                 \* what that call has done so far
    complete_response_content  \* stream_and_record_assistant_response: its local

main_vars == << conversation_history, user_input, world, stdout, signal >>

pipeline_vars ==
    << last_user_prompt_content, generated_query, search_results_list,
       available_results, loop_n, loop_i, attempt, best_result_id,
       selected_result_details, page_content, pipeline_result,
       selections, tried, judged, search_response >>

fn_vars == << fn_call, fn_result, complete_response_content >>

vars == << pc, main_vars, pipeline_vars, ncalls, fn_vars >>

CallKinds == {"decide", "query", "search", "select", "scrape", "relevant", "stream"}

Called(kind, n) == [ncalls EXCEPT ![kind] = @ + n]

(* ------------------------------------------------------------------ *)
(* The external services' possible answers                              *)
(* ------------------------------------------------------------------ *)

\* _call_ollama_chat / _call_ollama_decide: the content of the reply, or None
\* when anything in the call raised an Exception (it is caught and logged).
OllamaReplies(texts) == {None} \cup {Str(s) : s \in texts}

TrueFalseTexts ==
    { << >>, << "T", "r", "u", "e" >>, << "F", "a", "l", "s", "e" >> }

QueryTexts ==
    { << >>, << "w" >>, << "\"", "w", "\"" >>, << "\"", "\"" >> }

\* Replies to the selection prompt: nothing, prose, and integers around the
\* range of the identifiers shown; of these one with the trailing newline a
\* model adds, one with a digit-group underscore, one with a sign, two inside
\* white space int() drops (next line and form feed; vertical tab and
\* no-break space), and one after the separator U+001C, which it keeps.
SelectTexts ==
    { << >>, << "I", "D" >>, << "1", "\n" >>, << "0", "_", "1" >>, << "+", "1" >>,
      << "", "0", "\f" >>, << "", "2", " " >>, << "", "1" >> }
        \cup { IntText(k) : k \in (0 - 1)..MaxBlocks }

URL(i) == << "u", DigitChars[i + 1] >>

Title(i) == << "t", DigitChars[i + 1], " ", " " >>

\* The result blocks a response document may hold at (0-based) place i: one
\* without a title link, and one with a title link and a snippet.
Blocks(i) ==
    { [href |-> None, title |-> Title(i), snippet |-> None],
      [href |-> Str(URL(i)), title |-> Title(i), snippet |-> Str(<< "", "s", "\f", "" >>)] }

Documents ==
    UNION { { d \in [1..n -> UNION { Blocks(i) : i \in 0..(n - 1) }] :
                \A i \in 1..n : d[i] \in Blocks(i - 1) } : n \in 0..MaxBlocks }

LinkedBlock(i) ==
    [href |-> Str(URL(i)), title |-> Title(i), snippet |-> Str(<< "", "s", "\f", "" >>)]

\* requests.get + raise_for_status: a RequestException (nothing came back, or
\* a page came back under an HTTP error status), or a document.
SearchResponses ==
    { [ok |-> FALSE, blocks |-> << >>], [ok |-> FALSE, blocks |-> << LinkedBlock(0) >>] }
        \cup { [ok |-> TRUE, blocks |-> d] : d \in Documents }

PageText(url) == << "p" >> \o Tail(url)

\* trafilatura.fetch_url and trafilatura.extract for one url: the download
\* fails (None) or raises, the extraction raises or gives None, '' or text.
ScrapeResponses(url) ==
    { [fetch |-> "none", extract |-> None],
      [fetch |-> "raise", extract |-> None],
      [fetch |-> "ok", extract |-> [t |-> "raise"]],
      [fetch |-> "ok", extract |-> None],
      [fetch |-> "ok", extract |-> Str(<< >>)],
      [fetch |-> "ok", extract |-> Str(PageText(url))] }

Prompts == { << "h", "i" >>, << "N", "e", "w", "s", "?" >> }

(* ------------------------------------------------------------------ *)
(* The stages of the pipeline, as functions of the services' answers    *)
(* ------------------------------------------------------------------ *)

StartsWith(s, c) == Len(s) > 0 /\ s[1] = c

EndsWith(s, c) == Len(s) > 0 /\ s[Len(s)] = c

\* query[1:-1]
Inner(s) == SubSeq(s, 2, Len(s) - 1)

\* generate_search_query, given the reply of its model call.
generate_search_query(content) ==
    IF Truthy(content)
    THEN LET q1 == IF StartsWith(content.v, "\"") /\ EndsWith(content.v, "\"")
                   THEN Inner(content.v) ELSE content.v
             q2 == IF StartsWith(q1, "'") /\ EndsWith(q1, "'")
                   THEN Inner(q1) ELSE q1
         IN  Str(q2)
    ELSE content

SnippetPlaceholder == << "No description available." >>

\* LoopEnds without the `if i >= DUCKDUCKGO_MAX_RESULTS: break` of the loop.
LoopEnds_NoCap(blocks, i) == i >= Len(blocks)

\* Lines 146-149: the loop over the blocks ends with the blocks, or at the
\* block whose index reaches DUCKDUCKGO_MAX_RESULTS.
LoopEnds(blocks, i) == i >= Len(blocks) \/ i >= DUCKDUCKGO_MAX_RESULTS

\* The for loop of perform_duckduckgo_search over the result blocks, from
\* the (0-based) block i on.
RECURSIVE ParseBlocks(_, _, _)
ParseBlocks(blocks, i, results) ==
    IF LoopEnds(blocks, i)
    THEN results
    ELSE LET b == blocks[i + 1]
         IN  IF ~Truthy(b.href)
             THEN ParseBlocks(blocks, i + 1, results)
             ELSE ParseBlocks(blocks, i + 1,
                    Append(results,
                           [id      |-> i,
                            title   |-> Strip(b.title),
                            link    |-> b.href.v,
                            snippet |-> IF b.snippet = None
                                        THEN SnippetPlaceholder
                                        ELSE Strip(b.snippet.v)]))

\* perform_duckduckgo_search without line 137's raise_for_status(): the page
\* of an HTTP error is parsed like any other.
perform_duckduckgo_search_NoStatusCheck(response) ==
    ParseBlocks(response.blocks, 0, << >>)

\* perform_duckduckgo_search, given the response of the search request.
perform_duckduckgo_search(response) ==
    IF ~response.ok THEN << >> ELSE ParseBlocks(response.blocks, 0, << >>)

\* ValidSelection without line 203's upper bound: any k >= 0 is accepted.
ValidSelection_NoUpperBound(content, search_results) ==
    /\ Truthy(content)
    /\ IntParses(content.v)
    /\ 0 <= IntOf(content.v)

\* One reply to the selection prompt names a usable index of search_results.
ValidSelection(content, search_results) ==
    /\ Truthy(content)
    /\ IntParses(content.v)
    /\ 0 <= IntOf(content.v)
    /\ IntOf(content.v) < Len(search_results)

\* select_attempt taking the reply as a 1-based place: 1 <= k <= len.
select_attempt_OneBased(search_results, content, n) ==
    IF /\ Truthy(content)
       /\ IntParses(content.v)
       /\ 1 <= IntOf(content.v)
       /\ IntOf(content.v) <= Len(search_results)
    THEN [returns |-> TRUE, value |-> IntV(IntOf(content.v))]
    ELSE IF n + 1 >= SEARCH_RETRY_LIMIT
         THEN [returns |-> TRUE, value |-> None]
         ELSE [returns |-> FALSE, value |-> None]

\* select_attempt that asks again after every unusable reply (while True).
select_attempt_NoLimit(search_results, content, n) ==
    IF ValidSelection(content, search_results)
    THEN [returns |-> TRUE, value |-> IntV(IntOf(content.v))]
    ELSE [returns |-> FALSE, value |-> None]

\* select_attempt with the retry bound off by one (a fourth attempt).
select_attempt_ExtraAttempt(search_results, content, n) ==
    IF ValidSelection(content, search_results)
    THEN [returns |-> TRUE, value |-> IntV(IntOf(content.v))]
    ELSE IF n + 1 > SEARCH_RETRY_LIMIT
         THEN [returns |-> TRUE, value |-> None]
         ELSE [returns |-> FALSE, value |-> None]

\* One pass through the retry loop of select_best_search_result_id (lines
\* 193-214), the model call's reply given: whether the function returns now,
\* and what.
select_attempt(search_results, content, n) ==
    IF ValidSelection(content, search_results)
    THEN [returns |-> TRUE, value |-> IntV(IntOf(content.v))]
    ELSE IF n + 1 >= SEARCH_RETRY_LIMIT
         THEN [returns |-> TRUE, value |-> None]
         ELSE [returns |-> FALSE, value |-> None]

\* An Exception that no handler of the function caught leaves it.
Raised == [t |-> "raised"]

\* scrape_webpage_content without the handler of lines 239-241: an Exception
\* of the fetch or of the extraction leaves the function.
scrape_webpage_content_NoHandler(response) ==
    IF response.fetch = "raise" THEN Raised
    ELSE IF response.fetch # "ok" THEN None
    ELSE IF response.extract.t = "raise" THEN Raised
    ELSE IF Truthy(response.extract) THEN response.extract
    ELSE None

\* scrape_webpage_content, given what the fetch and the extraction do.
scrape_webpage_content(response) ==
    IF response.fetch # "ok" THEN None
    ELSE IF response.extract.t = "raise" THEN None
    ELSE IF Truthy(response.extract) THEN response.extract
    ELSE None

\* TrueVerdict without .lower(): only the lower-case word counts.
TrueVerdict_CaseSensitive(content) ==
    IF Truthy(content)
    THEN BoolV(Contains(content.v, << "t", "r", "u", "e" >>))
    ELSE content

\* The verdict both boolean prompts draw from a reply:
\* `content and 'true' in content.lower()`.
TrueVerdict(content) ==
    IF Truthy(content)
    THEN BoolV(Contains(Lower(content.v), << "t", "r", "u", "e" >>))
    ELSE content

\* is_content_relevant, given the reply of its model call.
is_content_relevant(page_text, content) == TrueVerdict(content)

\* list.pop(i) for a 0-based i, negative indices counting from the end, on a
\* list it is in range of: the element and the rest.
PopIndex(list, i) == IF i < 0 THEN Len(list) + i + 1 ELSE i + 1

PopInRange(list, i) == PopIndex(list, i) \in 1..Len(list)

Popped(list, i) == list[PopIndex(list, i)]

\* AfterPop removing the first element whatever the index (list.pop(0)).
AfterPop_DropsFirst(list, i) == Tail(list)

\* AfterPop reading the element without removing it (list[i] for list.pop(i)).
AfterPop_KeepsElement(list, i) == list

AfterPop(list, i) ==
    SubSeq(list, 1, PopIndex(list, i) - 1) \o SubSeq(list, PopIndex(list, i) + 1, Len(list))

Min(a, b) == IF a < b THEN a ELSE b

\* LoopBound without the cap: range(len(available_results)).
LoopBound_NoCap(results) == Len(results)

\* Line 282: the bound of the for loop, min(len(available_results), SEARCH_RETRY_LIMIT).
LoopBound(results) == Min(Len(results), SEARCH_RETRY_LIMIT)

(* ------------------------------------------------------------------ *)
(* run_ai_search_pipeline                                               *)
(* ------------------------------------------------------------------ *)

\* The value of pipeline_result while run_ai_search_pipeline has not returned.
Running == [t |-> "running"]

\* sys_msgs.asistant_msg, the Turn the history starts with (line 18). The
\* module sys_msgs is imported and not shown, so the role and the content of
\* this Turn are not known: each is a value that stands for itself, and no
\* definition looks into it.
asistant_msg ==
    [role |-> "sys_msgs.asistant_msg['role']",
     content |-> << "sys_msgs.asistant_msg['content']" >>]

\* The value of world while no input line is being processed.
NoWorld == [decide |-> None]

PipelineIdle ==
    /\ last_user_prompt_content = None
    /\ generated_query = None
    /\ search_results_list = << >>
    /\ available_results = << >>
    /\ loop_n = 0
    /\ loop_i = 0
    /\ attempt = 0
    /\ best_result_id = None
    /\ selected_result_details = None
    /\ page_content = None
    /\ pipeline_result = Running
    /\ selections = << >>
    /\ tried = << >>
    /\ judged = << >>
    /\ search_response = None

\* No function is being called on its own.
FnIdle ==
    /\ fn_call = None
    /\ fn_result = None
    /\ complete_response_content = << >>

\* A direct call run_ai_search_pipeline(p) in a fresh process.
PipelineInit ==
    /\ pc = "p_query"
    /\ conversation_history = << asistant_msg >>
    /\ user_input = None
    /\ world = NoWorld
    /\ stdout = << >>
    /\ last_user_prompt_content \in { Str(p) : p \in Prompts }
    /\ generated_query = None
    /\ search_results_list = << >>
    /\ available_results = << >>
    /\ loop_n = 0
    /\ loop_i = 0
    /\ attempt = 0
    /\ best_result_id = None
    /\ selected_result_details = None
    /\ page_content = None
    /\ pipeline_result = Running
    /\ ncalls = [k \in CallKinds |-> 0]
    /\ selections = << >>
    /\ tried = << >>
    /\ judged = << >>
    /\ search_response = None
    /\ signal = "none"
    /\ FnIdle

\* `return None` (also reached by `break`).
ReturnNone ==
    /\ pc' = "p_done"
    /\ pipeline_result' = None

\* The end of one pass through the body of the for loop without a return.
NextIteration ==
    IF loop_i + 1 < loop_n
    THEN /\ loop_i' = loop_i + 1
         /\ pc' = "p_select"
         /\ UNCHANGED pipeline_result
    ELSE /\ ReturnNone
         /\ UNCHANGED loop_i

\* QueryAborts testing `generated_query is None` instead of its truthiness.
QueryAborts_OnlyNone(query) == query = None

\* Line 271: `if not generated_query`.
QueryAborts(query) == ~Truthy(query)

\* Lines 270-273: synthesize the query, abort without one.
GenerateQuery ==
    /\ pc = "p_query"
    /\ \E content \in OllamaReplies(QueryTexts) :
         /\ generated_query' = generate_search_query(content)
         /\ ncalls' = Called("query", 1)
         /\ IF QueryAborts(generate_search_query(content))
            THEN ReturnNone
            ELSE pc' = "p_search" /\ UNCHANGED pipeline_result
    /\ UNCHANGED << main_vars, fn_vars, search_response, last_user_prompt_content, search_results_list,
                    available_results, loop_n, loop_i, attempt,
                    best_result_id, selected_result_details, page_content,
                    selections, tried, judged >>

\* Lines 275-282: search, abort on an empty list, set up the loop.
Search ==
    /\ pc = "p_search"
    /\ \E response \in SearchResponses :
         LET results == perform_duckduckgo_search(response)
         IN  /\ search_response' = response
             /\ search_results_list' = results
             /\ ncalls' = Called("search", 1)
             /\ IF Len(results) = 0
                THEN /\ ReturnNone
                     /\ UNCHANGED << available_results, loop_n >>
                ELSE /\ available_results' = results
                     /\ loop_n' = LoopBound(results)
                     /\ pc' = "p_select"
                     /\ UNCHANGED pipeline_result
    /\ UNCHANGED << main_vars, fn_vars, last_user_prompt_content, generated_query, loop_i,
                    attempt, best_result_id, selected_result_details,
                    page_content, selections, tried, judged >>

\* Lines 284-292 and 172-214: the loop's emptiness guard, then one attempt of
\* select_best_search_result_id on the working list.
SelectAttempt ==
    /\ pc = "p_select"
    /\ IF Len(available_results) = 0
       THEN /\ ReturnNone
            /\ UNCHANGED << best_result_id, ncalls, selections, attempt >>
       ELSE \E content \in OllamaReplies(SelectTexts) :
              LET r == select_attempt(available_results, content, attempt)
              IN  /\ ncalls' = Called("select", 1)
                  /\ UNCHANGED pipeline_result
                  /\ IF r.returns
                     THEN /\ best_result_id' = r.value
                          /\ selections' = Append(selections, r.value)
                          /\ attempt' = 0
                          /\ pc' = "p_remove"
                     ELSE /\ attempt' = attempt + 1
                          /\ pc' = "p_select"
                          /\ UNCHANGED << best_result_id, selections >>
    /\ UNCHANGED << main_vars, fn_vars, search_response, last_user_prompt_content, generated_query,
                    search_results_list, available_results, loop_n, loop_i,
                    selected_result_details, page_content, tried, judged >>

\* RemovalIndex falling back to the last candidate (pop() for pop(0)).
RemovalIndex_FallsBackToLast ==
    IF best_result_id = None THEN Len(available_results) - 1
    ELSE IF PopInRange(available_results, best_result_id.v) THEN best_result_id.v
    ELSE Len(available_results) - 1

\* The index lines 294-313 pop: 0 after "no selection" or an IndexError, the
\* selected index otherwise.
RemovalIndex ==
    IF best_result_id = None THEN 0
    ELSE IF PopInRange(available_results, best_result_id.v) THEN best_result_id.v
    ELSE 0

\* Lines 294-313: remove the candidate to try from the working list.
Remove ==
    /\ pc = "p_remove"
    /\ IF Len(available_results) = 0
       THEN /\ ReturnNone
            /\ UNCHANGED << available_results, selected_result_details >>
       ELSE /\ selected_result_details' = Popped(available_results, RemovalIndex)
            /\ available_results' = AfterPop(available_results, RemovalIndex)
            /\ pc' = "p_scrape"
            /\ UNCHANGED pipeline_result
    /\ UNCHANGED << main_vars, fn_vars, search_response, last_user_prompt_content, generated_query,
                    search_results_list, loop_n, loop_i, attempt,
                    best_result_id, page_content, ncalls, selections,
                    tried, judged >>

\* Lines 316-319, 330-331: extract the removed candidate's page.  An Exception
\* out of scrape_webpage_content would leave run_ai_search_pipeline too, which
\* has no handler around the call ("p_raised").
Scrape ==
    /\ pc = "p_scrape"
    /\ \E response \in ScrapeResponses(selected_result_details.link) :
         IF scrape_webpage_content(response) = Raised
         THEN /\ pc' = "p_raised"
              /\ UNCHANGED << page_content, loop_i, pipeline_result >>
         ELSE /\ page_content' = scrape_webpage_content(response)
              /\ IF Truthy(scrape_webpage_content(response))
                 THEN pc' = "p_relevant" /\ UNCHANGED << loop_i, pipeline_result >>
                 ELSE NextIteration
    /\ tried' = Append(tried, selected_result_details)
    /\ ncalls' = Called("scrape", 1)
    /\ UNCHANGED << main_vars, fn_vars, search_response, last_user_prompt_content, generated_query,
                    search_results_list, available_results, loop_n, attempt,
                    best_result_id, selected_result_details, selections,
                    judged >>

\* Lines 321-328: judge the extracted text, return it when relevant.
Relevant ==
    /\ pc = "p_relevant"
    /\ \E content \in OllamaReplies(TrueFalseTexts) :
         LET verdict == is_content_relevant(page_content.v, content)
         IN  /\ judged' = Append(judged, [text |-> page_content.v,
                                          relevant |-> Truthy(verdict)])
             /\ IF Truthy(verdict)
                THEN /\ pipeline_result' = page_content
                     /\ pc' = "p_done"
                     /\ UNCHANGED loop_i
                ELSE NextIteration
    /\ ncalls' = Called("relevant", 1)
    /\ UNCHANGED << main_vars, fn_vars, search_response, last_user_prompt_content, generated_query,
                    search_results_list, available_results, loop_n, attempt,
                    best_result_id, selected_result_details, page_content,
                    selections, tried >>

PipelineNext ==
    \/ GenerateQuery
    \/ Search
    \/ SelectAttempt
    \/ Remove
    \/ Scrape
    \/ Relevant

\* One run of run_ai_search_pipeline, called directly.
PipelineSpec == PipelineInit /\ [][PipelineNext]_vars

\* The same call, when every external call it is waiting for returns or
\* fails in finite time: a step that can be taken is taken.
PipelineFairSpec == PipelineSpec /\ WF_vars(PipelineNext)

(* ------------------------------------------------------------------ *)
(* main: the REPL loop                                                  *)
(* ------------------------------------------------------------------ *)

\* should_search_web without the guard of lines 87-89: the model is always asked.
should_search_web_NoGuard(conversation, reply) ==
    [raised |-> FALSE, value |-> TrueVerdict(reply), calls |-> 1]

\* should_search_web (lines 82-99), given its argument and the reply its
\* model call would get: whether it raises, what it returns, the calls made.
\* Its argument is annotated str and used as a list of Turns: on a non-empty
\* str, conversation_history[-1] is a one-character str, and subscripting
\* that with 'role' raises TypeError.
should_search_web(conversation, reply) ==
    IF ~Truthy(conversation)
    THEN [raised |-> FALSE, value |-> BoolV(FALSE), calls |-> 0]
    ELSE IF conversation.t = "str"
    THEN [raised |-> TRUE, value |-> None, calls |-> 0]
    ELSE IF conversation.v[Len(conversation.v)].role # "user"
    THEN [raised |-> FALSE, value |-> BoolV(FALSE), calls |-> 0]
    ELSE [raised |-> FALSE, value |-> TrueVerdict(reply), calls |-> 1]

\* Line 400: what main passes to should_search_web.
should_search_web_argument == last_user_prompt_content

\* Lines 411-414.
prompt_with_context(retrieved_context, original) ==
    << "Based on the following information: \n---BEGIN INFO---\n" >>
        \o retrieved_context
        \o << "\n---END INFO---\n\nPlease answer this question or address this request: \"" >>
        \o original \o << "\"" >>

\* Lines 422-426.
prompt_informing_failed_search(original) ==
    << "I tried to find information on the web to answer your request: \"" >>
        \o original
        \o << "\", but I couldn't find relevant information or the search failed. Please answer based on your general knowledge, or state that you couldn't find the specific information." >>

Quit == << "q", "u", "i", "t" >>

Exit == << "e", "x", "i", "t" >>

\* The lines input() may return.
InputLines ==
    { Quit, << "E", "X", "I", "T" >>, << >>, << " ", "\f", "", "", "", " " >>,
      << " ", "q", "u", "i", "t" >>, << "h", "i" >> }

ThreeResults == [ok |-> TRUE, blocks |-> << LinkedBlock(0), LinkedBlock(1), LinkedBlock(2) >>]

Answer == << "o", "k" >>

\* What the services would answer while one input line is processed: the
\* classifier's reply, the query reply, the search response, the selector's
\* reply, whether pages can be extracted, the relevance reply, and the
\* streamed answer (None: the streaming call fails).
AllWorlds ==
    [ decide   : OllamaReplies(TrueFalseTexts),
      query    : { None, Str(<< "w" >>) },
      search   : { [ok |-> FALSE, blocks |-> << >>], ThreeResults },
      select   : { None, Str(IntText(1)) },
      extract  : BOOLEAN,
      relevant : { Str(<< "T", "r", "u", "e" >>), Str(<< "F", "a", "l", "s", "e" >>) },
      stream   : { None, Str(Answer) } ]

\* An answer no call would ask for is left at its first value: nothing is
\* asked of the pipeline's services unless the classifier says 'true', nothing
\* after a failed query or search, and no relevance without extracted text.
Worlds ==
    { w \in AllWorlds :
        /\ ~Truthy(TrueVerdict(w.decide)) => w.query = None
        /\ w.query = None => ~w.search.ok
        /\ ~w.search.ok => w.select = None /\ ~w.extract
        /\ ~w.extract => w.relevant = Str(<< "F", "a", "l", "s", "e" >>) }

UserTurn(content) == [role |-> "user", content |-> content]

Init ==
    /\ pc = "m_start"
    /\ conversation_history = << asistant_msg >>
    /\ user_input = None
    /\ world = NoWorld
    /\ stdout = << >>
    /\ ncalls = [k \in CallKinds |-> 0]
    /\ attempt = 0
    /\ signal = "none"
    /\ PipelineIdle
    /\ FnIdle

\* Line 381: main logs that it starts, and enters the loop.
Start ==
    /\ pc = "m_start"
    /\ pc' = "m_input"
    /\ UNCHANGED << main_vars, pipeline_vars, ncalls, fn_vars >>

\* Line 381 is before the try block: a KeyboardInterrupt raised while it
\* runs leaves main.
KeyboardInterruptBeforeLoop ==
    /\ pc = "m_start"
    /\ pc' = "m_escaped"
    /\ signal' = "start"
    /\ UNCHANGED << conversation_history, user_input, world, stdout,
                    pipeline_vars, ncalls, fn_vars >>

\* A line that is neither quit/exit nor blank (lines 388 and 392).
Accepted(line) == Lower(line) \notin { Quit, Exit } /\ Len(Strip(line)) > 0

\* Line 387: input() returns a line.
ReadInput ==
    /\ pc = "m_input"
    /\ \E line \in InputLines :
         /\ Accepted(line) => Len(conversation_history) <= MaxTurns
         /\ user_input' = Str(line)
    /\ pc' = "m_read"
    /\ UNCHANGED << conversation_history, world, stdout, signal, pipeline_vars,
                    ncalls, fn_vars >>

\* Lines 388-396: quit/exit goes to the log and `break` of lines 389-390, a
\* blank line to the `continue`, any other line is appended as a user Turn.
CheckLine ==
    /\ pc = "m_read"
    /\ IF Lower(user_input.v) \in { Quit, Exit }
       THEN /\ pc' = "m_quit"
            /\ UNCHANGED conversation_history
       ELSE IF Len(Strip(user_input.v)) = 0
       THEN /\ pc' = "m_continue"
            /\ UNCHANGED conversation_history
       ELSE /\ conversation_history' = Append(conversation_history, UserTurn(user_input.v))
            /\ pc' = "m_assign"
    /\ UNCHANGED << user_input, world, stdout, signal, pipeline_vars, ncalls, fn_vars >>

\* Lines 389-390: the exit is logged and `break` ends the loop; main returns.
Quits ==
    /\ pc = "m_quit"
    /\ pc' = "m_exit"
    /\ UNCHANGED << main_vars, pipeline_vars, ncalls, fn_vars >>

\* Line 393: `continue` jumps back to the head of the loop.
Continue ==
    /\ pc = "m_continue"
    /\ pc' = "m_input"
    /\ UNCHANGED << main_vars, pipeline_vars, ncalls, fn_vars >>

\* Line 398: last_user_prompt_content = user_input (world: what the services
\* would answer while this line is processed).
AssignPrompt ==
    /\ pc = "m_assign"
    /\ last_user_prompt_content' = user_input
    /\ world' \in Worlds
    /\ pc' = "m_decide"
    /\ UNCHANGED << conversation_history, user_input, stdout, signal, fn_vars,
                    search_response, ncalls, generated_query, search_results_list,
                    available_results, loop_n, loop_i, attempt, best_result_id,
                    selected_result_details, page_content, pipeline_result,
                    selections, tried, judged >>

\* Line 387: input() raises an Exception (EOFError at the end of the input).
InputRaises ==
    /\ pc = "m_input"
    /\ Len(stdout) <= MaxTurns
    /\ pc' = "m_except"
    /\ UNCHANGED << main_vars, pipeline_vars, ncalls, fn_vars >>

\* The positions of main inside the try block at which a pending
\* KeyboardInterrupt is raised: in input() (line 387), in the calls of lines
\* 388-396 (that of line 389 included), and from line 398 on.
InTry == { "m_input", "m_read", "m_quit", "m_assign", "m_decide" }

\* KeyboardInterrupt with no `except KeyboardInterrupt` clause around the
\* loop body: the exception leaves main.
KeyboardInterrupt_Uncaught ==
    /\ pc \in InTry
    /\ pc' = "m_escaped"
    /\ signal' = IF pc = "m_input" THEN "input" ELSE "turn"
    /\ UNCHANGED << conversation_history, user_input, world, stdout,
                    pipeline_vars, ncalls, fn_vars >>

\* KeyboardInterrupt whose handler takes the pending user Turn off the history.
KeyboardInterrupt_DropsPending ==
    /\ pc \in InTry
    /\ pc' = "m_interrupted"
    /\ signal' = IF pc = "m_input" THEN "input" ELSE "turn"
    /\ conversation_history' = IF pc \in { "m_assign", "m_decide" }
                                THEN AfterPop(conversation_history, 0 - 1)
                                ELSE conversation_history
    /\ UNCHANGED << user_input, world, stdout, pipeline_vars, ncalls, fn_vars >>

\* Line 437: a KeyboardInterrupt inside the try block (at input(), or while
\* the line read is being processed) is caught; lines 438-439 run next.
KeyboardInterrupt ==
    /\ pc \in InTry
    /\ pc' = "m_interrupted"
    /\ signal' = IF pc = "m_input" THEN "input" ELSE "turn"
    /\ UNCHANGED << conversation_history, user_input, world, stdout,
                    pipeline_vars, ncalls, fn_vars >>

\* Lines 438-439: the interrupt is logged and `break` ends the loop; main
\* returns.
InterruptEnds ==
    /\ pc = "m_interrupted"
    /\ pc' = "m_exit"
    /\ UNCHANGED << main_vars, pipeline_vars, ncalls, fn_vars >>

\* Line 438: a second KeyboardInterrupt, raised while the handler of the
\* first is logging, is caught by nothing and leaves main.
KeyboardInterruptInInterruptHandler ==
    /\ pc = "m_interrupted"
    /\ pc' = "m_escaped"
    /\ signal' = "second"
    /\ UNCHANGED << conversation_history, user_input, world, stdout,
                    pipeline_vars, ncalls, fn_vars >>

\* Line 393: the jump of `continue` is not covered by the try block (the
\* exception table of main leaves it out), so a KeyboardInterrupt raised
\* at it is not caught by lines 437-439 and leaves main.
KeyboardInterruptAtContinue ==
    /\ pc = "m_continue"
    /\ pc' = "m_escaped"
    /\ signal' = "continue"
    /\ UNCHANGED << conversation_history, user_input, world, stdout,
                    pipeline_vars, ncalls, fn_vars >>

\* Line 400: the call of should_search_web and the branch on its result.
\* Every line that gets here is a non-empty str, on which the call raises, so
\* control always passes to the handler of lines 441-443; the positions
\* "m_pipeline" (lines 402-430) and "m_stream" (line 435) are never reached
\* and no action starts from them.
CallShouldSearchWeb ==
    /\ pc = "m_decide"
    /\ LET r == should_search_web(should_search_web_argument, world.decide)
       IN  IF r.raised
           THEN /\ pc' = "m_except"
                /\ UNCHANGED ncalls
           ELSE /\ ncalls' = Called("decide", r.calls)
                /\ pc' = IF Truthy(r.value) THEN "m_pipeline" ELSE "m_stream"
    /\ UNCHANGED << main_vars, pipeline_vars, fn_vars >>

\* HandleException that ends the loop (a `break` in the handler).
HandleException_Ends ==
    /\ pc = "m_except"
    /\ stdout' = Append(stdout, "[CRITICAL ERROR]")
    /\ pc' = "m_exit"
    /\ UNCHANGED << conversation_history, user_input, world, signal,
                    pipeline_vars, ncalls, fn_vars >>

\* HandleException that starts the conversation over (conversation_history.clear()).
HandleException_Resets ==
    /\ pc = "m_except"
    /\ stdout' = Append(stdout, "[CRITICAL ERROR]")
    /\ conversation_history' = << >>
    /\ pc' = "m_input"
    /\ UNCHANGED << user_input, world, signal, pipeline_vars, ncalls, fn_vars >>

\* HandleException that takes the last Turn off the history before it goes on.
HandleException_RollsBack ==
    /\ pc = "m_except"
    /\ stdout' = Append(stdout, "[CRITICAL ERROR]")
    /\ conversation_history' = AfterPop(conversation_history, 0 - 1)
    /\ pc' = "m_input"
    /\ UNCHANGED << user_input, world, signal, pipeline_vars, ncalls, fn_vars >>

\* Lines 441-443: any other Exception is logged and reported, and the loop
\* goes on to read the next line.
HandleException ==
    /\ pc = "m_except"
    /\ stdout' = Append(stdout, "[CRITICAL ERROR]")
    /\ pc' = "m_input"
    /\ UNCHANGED << conversation_history, user_input, world, signal,
                    pipeline_vars, ncalls, fn_vars >>

\* Lines 441-443: a KeyboardInterrupt while the handler of the other
\* Exceptions is running is outside the try block, and leaves main; it comes
\* before the print of line 443 has written its message, or after.
KeyboardInterruptInHandler ==
    /\ pc = "m_except"
    /\ pc' = "m_escaped"
    /\ signal' = "handler"
    /\ \E printed \in BOOLEAN :
         stdout' = IF printed THEN Append(stdout, "[CRITICAL ERROR]") ELSE stdout
    /\ UNCHANGED << conversation_history, user_input, world,
                    pipeline_vars, ncalls, fn_vars >>

Next ==
    \/ Start
    \/ KeyboardInterruptBeforeLoop
    \/ ReadInput
    \/ CheckLine
    \/ Quits
    \/ Continue
    \/ AssignPrompt
    \/ InputRaises
    \/ KeyboardInterrupt
    \/ InterruptEnds
    \/ KeyboardInterruptInInterruptHandler
    \/ KeyboardInterruptAtContinue
    \/ CallShouldSearchWeb
    \/ HandleException
    \/ KeyboardInterruptInHandler

\* The program: main() in a fresh process.
Spec == Init /\ [][Next]_vars

(* ------------------------------------------------------------------ *)
(* The functions called on their own                                    *)
(* ------------------------------------------------------------------ *)

\* The longest conversation handed to should_search_web.
MaxConversation == 2

Roles == { "system", "user", "assistant" }

Turns == { [role |-> r, content |-> << "c" >>] : r \in Roles }

\* The arguments of should_search_web: lists of Turns, and the str values
\* a caller may pass in their place.
Conversations ==
    { List(c) : c \in UNION { [1..n -> Turns] : n \in 0..MaxConversation } }
        \cup { Str(<< >>), Str(<< "h", "i" >>) }

\* Replies to the two true/false prompts.
VerdictTexts ==
    { << >>, << "T", "r", "u", "e" >>, << "F", "a", "l", "s", "e" >>,
      << "T", "R", "U", "E" >>, << "u", "n", "t", "r", "u", "e" >>,
      << "t", "r", "u" >>, << "y", "e", "s" >> }

\* Replies to the query prompt, with the quotes a model may put around them.
QuotedTexts ==
    { << >>, << "w" >>,
      << "\"", "w", "\"" >>, << "'", "w", "'" >>,
      << "\"", "'", "w", "'", "\"" >>, << "'", "\"", "w", "\"", "'" >>,
      << "\"", "w" >>, << "w", "'" >>, << "\"", "w", "'" >>,
      << "c", "a", "n", "'", "t" >>, << "\"" >>, << "\"", "\"" >> }

\* The lists select_best_search_result_id may be given.
ResultLists == { perform_duckduckgo_search(r) : r \in SearchResponses }

\* Lines 193-210: the attempts of select_best_search_result_id, one reply each.
RECURSIVE select_loop(_, _, _)
select_loop(search_results, replies, n) ==
    LET r == select_attempt(search_results, replies[n + 1], n)
    IN  IF r.returns
        THEN [raised |-> FALSE, value |-> r.value, calls |-> n + 1]
        ELSE select_loop(search_results, replies, n + 1)

\* Lines 172-214: nothing is asked about an empty list.
select_best_search_result_id(search_results, replies) ==
    IF Len(search_results) = 0
    THEN [raised |-> FALSE, value |-> None, calls |-> 0]
    ELSE select_loop(search_results, replies, 0)

\* The most result blocks of a page handed to perform_duckduckgo_search alone.
MaxPageBlocks == 7

\* The blocks such a page may hold at place i: those of Blocks(i), and one
\* with a title link and no snippet.
PageBlocks(i) ==
    Blocks(i) \cup { [href |-> Str(URL(i)), title |-> Title(i), snippet |-> None] }

RECURSIVE PagesOfLength(_)
PagesOfLength(n) ==
    IF n = 0 THEN { << >> }
    ELSE { Append(d, b) : d \in PagesOfLength(n - 1), b \in PageBlocks(n - 1) }

Pages == UNION { PagesOfLength(n) : n \in 0..MaxPageBlocks }

FnCalls ==
    { [fn |-> "perform_duckduckgo_search", response |-> r] :
        r \in { [ok |-> FALSE, blocks |-> << >>] }
                 \cup { [ok |-> TRUE, blocks |-> d] : d \in Pages } }
    \cup
    { [fn |-> "should_search_web", conversation |-> c, reply |-> r] :
        c \in Conversations, r \in OllamaReplies(VerdictTexts) }
    \cup { [fn |-> "is_content_relevant", page_text |-> t, reply |-> r] :
        t \in { << >>, PageText(URL(0)) }, r \in OllamaReplies(VerdictTexts) }
    \cup { [fn |-> "generate_search_query", reply |-> r] :
        r \in OllamaReplies(QuotedTexts) }
    \cup { [fn |-> "select_best_search_result_id", search_results |-> l, replies |-> rs] :
        l \in ResultLists,
        rs \in [1..SEARCH_RETRY_LIMIT -> OllamaReplies(SelectTexts)] }

\* One function of the module is called, with the replies its model calls get.
FunctionInit ==
    /\ pc = "f_call"
    /\ fn_call \in FnCalls
    /\ fn_result = None
    /\ complete_response_content = << >>
    /\ conversation_history = << asistant_msg >>
    /\ user_input = None
    /\ world = NoWorld
    /\ stdout = << >>
    /\ signal = "none"
    /\ ncalls = [k \in CallKinds |-> 0]
    /\ PipelineIdle

FnReturns(result, kind) ==
    /\ pc = "f_call"
    /\ fn_result' = result
    /\ ncalls' = Called(kind, result.calls)
    /\ pc' = "f_done"
    /\ UNCHANGED << main_vars, pipeline_vars, fn_call, complete_response_content >>

ApplyShouldSearchWeb ==
    /\ fn_call.fn = "should_search_web"
    /\ FnReturns(should_search_web(fn_call.conversation, fn_call.reply), "decide")

ApplyIsContentRelevant ==
    /\ fn_call.fn = "is_content_relevant"
    /\ FnReturns([raised |-> FALSE,
                  value |-> is_content_relevant(fn_call.page_text, fn_call.reply),
                  calls |-> 1], "relevant")

ApplyGenerateSearchQuery ==
    /\ fn_call.fn = "generate_search_query"
    /\ FnReturns([raised |-> FALSE,
                  value |-> generate_search_query(fn_call.reply),
                  calls |-> 1], "query")

ApplySelectBestSearchResultId ==
    /\ fn_call.fn = "select_best_search_result_id"
    /\ FnReturns(select_best_search_result_id(fn_call.search_results, fn_call.replies),
                 "select")

ApplyPerformDuckduckgoSearch ==
    /\ fn_call.fn = "perform_duckduckgo_search"
    /\ FnReturns([raised |-> FALSE,
                  value |-> perform_duckduckgo_search(fn_call.response),
                  calls |-> 1], "search")

FunctionNext ==
    \/ ApplyPerformDuckduckgoSearch
    \/ ApplyShouldSearchWeb
    \/ ApplyIsContentRelevant
    \/ ApplyGenerateSearchQuery
    \/ ApplySelectBestSearchResultId

FunctionSpec == FunctionInit /\ [][FunctionNext]_vars

(* ------------------------------------------------------------------ *)
(* stream_and_record_assistant_response                                 *)
(* ------------------------------------------------------------------ *)

\* The most tokens one stream yields.
MaxTokens == 3

Tokens == { "a", "b" }

AssistantTurn(content) == [role |-> "assistant", content |-> content]

\* The histories the function may find when it is called.
StreamHistories ==
    { << >>, << asistant_msg >> }
        \cup { << asistant_msg, UserTurn(p) >> : p \in Prompts }
        \cup { << asistant_msg, UserTurn(p), AssistantTurn(Answer), UserTurn(p) >> :
                 p \in Prompts }

StreamHeader == "\nASSISTANT:"

StreamError == "\n[ERROR] Sorry, I encountered a problem while generating my response."

StreamInit ==
    /\ pc = "st_call"
    /\ conversation_history \in StreamHistories
    /\ fn_call = [fn |-> "stream_and_record_assistant_response",
                  history |-> conversation_history]
    /\ fn_result = None
    /\ complete_response_content = << >>
    /\ user_input = None
    /\ world = NoWorld
    /\ stdout = << >>
    /\ signal = "none"
    /\ ncalls = [k \in CallKinds |-> 0]
    /\ PipelineIdle

\* stream_except that records what was streamed before the failure.
stream_except_RecordsPartial(history, out, partial) ==
    [history |-> Append(history, AssistantTurn(partial)), stdout |-> Append(out, StreamError)]

\* Lines 372-374: the handler of the try block prints the error message; the
\* history is not touched.
stream_except(history, out, partial) ==
    [history |-> history, stdout |-> Append(out, StreamError)]

\* ollama.chat, or the iteration of its stream, raised an Exception.
StreamFails ==
    LET after == stream_except(conversation_history, stdout, complete_response_content)
    IN  /\ conversation_history' = after.history
        /\ stdout' = after.stdout
        /\ fn_result' = [raised |-> FALSE, value |-> None, failed |-> TRUE]
        /\ pc' = "st_returned"
        /\ UNCHANGED complete_response_content

\* Lines 344-360: nothing is done on an empty history; otherwise the streaming
\* call is issued, and it either raises or hands back a stream.
StreamCall ==
    /\ pc = "st_call"
    /\ IF Len(conversation_history) = 0
       THEN /\ fn_result' = [raised |-> FALSE, value |-> None, failed |-> FALSE]
            /\ pc' = "st_returned"
            /\ UNCHANGED << conversation_history, stdout, ncalls, complete_response_content >>
       ELSE /\ ncalls' = Called("stream", 1)
            /\ \E ok \in BOOLEAN :
                 IF ok
                 THEN /\ complete_response_content' = << >>
                      /\ stdout' = Append(stdout, StreamHeader)
                      /\ pc' = "st_stream"
                      /\ UNCHANGED << conversation_history, fn_result >>
                 ELSE StreamFails
    /\ UNCHANGED << user_input, world, signal, pipeline_vars, fn_call >>

\* accumulate that keeps the last token only (= for +=).
accumulate_Overwrites(content, token) == << token >>

\* Line 365: complete_response_content += token.
accumulate(content, token) == Append(content, token)

\* Lines 362-370: the next chunk is a token, which is printed and accumulated;
\* or the stream raises; or it ends and the assistant Turn is appended.
StreamChunk ==
    /\ pc = "st_stream"
    /\ \E event \in { "raise", "end" } \cup Tokens :
         IF event \in Tokens
         THEN /\ Len(complete_response_content) < MaxTokens
              /\ stdout' = Append(stdout, event)
              /\ complete_response_content' = accumulate(complete_response_content, event)
              /\ UNCHANGED << pc, conversation_history, fn_result >>
         ELSE IF event = "raise"
         THEN StreamFails
         ELSE /\ conversation_history' =
                    Append(conversation_history, AssistantTurn(complete_response_content))
              /\ stdout' = Append(stdout, "\n\n")
              /\ fn_result' = [raised |-> FALSE, value |-> None, failed |-> FALSE]
              /\ pc' = "st_returned"
              /\ UNCHANGED complete_response_content
    /\ UNCHANGED << user_input, world, signal, pipeline_vars, fn_call, ncalls >>

StreamNext ==
    \/ StreamCall
    \/ StreamChunk

\* stream_and_record_assistant_response() called on a history.
StreamSpec == StreamInit /\ [][StreamNext]_vars

(* ------------------------------------------------------------------ *)
(* The module as a whole                                                *)
(* ------------------------------------------------------------------ *)

\* Any of the module's entry points is started: main(), or a direct call of
\* run_ai_search_pipeline or of stream_and_record_assistant_response.
ProgramInit ==
    \/ Init
    \/ PipelineInit
    \/ StreamInit

ProgramNext ==
    \/ Next
    \/ PipelineNext
    \/ StreamNext

ProgramSpec == ProgramInit /\ [][ProgramNext]_vars

(* ------------------------------------------------------------------ *)
(* Properties                                                           *)
(* ------------------------------------------------------------------ *)

Range(seq) == { seq[i] : i \in 1..Len(seq) }

Last(seq) == seq[Len(seq)]

\* The REPL is back at input() after it processed an accepted line.
TurnEnded ==
    /\ pc = "m_input"
    /\ user_input.t = "str"
    /\ user_input.v \in Prompts

\* The services are such that the classifier answers 'true', a query is
\* synthesized and the search returns candidates.
SearchHappens(w) ==
    /\ Truthy(TrueVerdict(w.decide))
    /\ Truthy(generate_search_query(w.query))
    /\ Len(perform_duckduckgo_search(w.search)) > 0

\* C1: conversation_history never holds two adjacent Turns of role 'user'.
C1_NoAdjacentUserTurns ==
    \A i \in 1..(Len(conversation_history) - 1) :
        ~ (/\ conversation_history[i].role = "user"
           /\ conversation_history[i + 1].role = "user")

\* Every call of select_best_search_result_id so far returned "no selection".
AllSelectionsFailed == \A i \in 1..Len(selections) : selections[i] = None

SomeVerdictRelevant == \E i \in 1..Len(judged) : judged[i].relevant

\* run_ai_search_pipeline has returned extracted context.
ReturnedContext == pipeline_result # Running /\ pipeline_result # None

\* C2 as stated: one run issues at most SEARCH_RETRY_LIMIT selection model
\* calls in total, the budget being shared by all iterations of the loop.
C2_SharedRetryBudget == ncalls["select"] <= SEARCH_RETRY_LIMIT

\* C2 as amended: each call of select_best_search_result_id issues at most
\* SEARCH_RETRY_LIMIT model calls, each loop iteration gets that budget anew,
\* and a run issues at most SEARCH_RETRY_LIMIT * min(n, SEARCH_RETRY_LIMIT).
C2_RetryBudgetPerSelection ==
    /\ attempt < SEARCH_RETRY_LIMIT
    /\ ncalls["select"] <= SEARCH_RETRY_LIMIT * Len(selections) + attempt
    /\ Len(selections) + (IF attempt > 0 THEN 1 ELSE 0)
           <= Min(Len(search_results_list), SEARCH_RETRY_LIMIT)
    /\ ncalls["select"]
           <= SEARCH_RETRY_LIMIT * Min(Len(search_results_list), SEARCH_RETRY_LIMIT)

\* A run that spent the full budget in each of three iterations.
C2_BudgetRenewedWitness ==
    /\ pc = "p_done"
    /\ ncalls["select"] = SEARCH_RETRY_LIMIT * SEARCH_RETRY_LIMIT
    /\ Len(selections) = SEARCH_RETRY_LIMIT

\* C3 as stated: when every selection fails, candidates go to the extractor
\* in search-result order until one is relevant or every candidate the
\* search returned has been tried.
C3_FifoUntilAllTried ==
    AllSelectionsFailed =>
        /\ tried = SubSeq(search_results_list, 1, Len(tried))
        /\ pc = "p_done" =>
              \/ ReturnedContext
              \/ Len(tried) = Len(search_results_list)

\* C3 as amended: when every selection fails, candidates go to the extractor
\* in search-result order until one is relevant or the first
\* min(n, SEARCH_RETRY_LIMIT) of them have been tried.
C3_FifoUntilLoopBound ==
    AllSelectionsFailed =>
        /\ tried = SubSeq(search_results_list, 1, Len(tried))
        /\ pc = "p_done" =>
              \/ ReturnedContext
              \/ Len(tried) = Min(Len(search_results_list), SEARCH_RETRY_LIMIT)

\* Every selection failed, and the first three of five candidates were tried.
C3_FifoWitness ==
    /\ pc = "p_done"
    /\ Len(selections) = SEARCH_RETRY_LIMIT
    /\ AllSelectionsFailed
    /\ Len(search_results_list) = DUCKDUCKGO_MAX_RESULTS
    /\ tried = SubSeq(search_results_list, 1, SEARCH_RETRY_LIMIT)
    /\ pipeline_result = None

\* C4: after select_best_search_result_id returned ordinal k, the candidate
\* removed and handed to the extractor is the one shown to the model as ID k.
C4_RemovedIsPresentedId ==
    (pc = "p_scrape" /\ best_result_id # None) =>
        selected_result_details.id = best_result_id.v

\* C5: context is returned only as the non-empty extraction of a candidate
\* removed from the working list in this run that the relevance gate judged
\* relevant, and the run is over in the very state a relevant verdict exists:
\* that verdict is the last call the run made.
C5_ReturnsOnlyRelevantExtraction ==
    /\ ReturnedContext =>
          /\ pc = "p_done"
          /\ Truthy(pipeline_result)
          /\ Len(tried) > 0
          /\ Last(tried) \in Range(search_results_list)
          /\ Last(tried) \notin Range(available_results)
          /\ pipeline_result.v = PageText(Last(tried).link)
          /\ Len(judged) > 0
          /\ Last(judged) = [text |-> pipeline_result.v, relevant |-> TRUE]
    /\ SomeVerdictRelevant =>
          /\ ReturnedContext
          /\ \A i \in 1..(Len(judged) - 1) : ~judged[i].relevant
          /\ ncalls["relevant"] = Len(judged)
          /\ ncalls["scrape"] = Len(tried)
          /\ Len(selections) = Len(tried)
          /\ attempt = 0

\* Context returned from the second candidate tried, the first being rejected.
C5_ReturnWitness ==
    /\ ReturnedContext
    /\ Len(tried) = 2
    /\ Len(judged) = 2
    /\ Len(available_results) = 2

\* C6: the loop runs at most min(n, SEARCH_RETRY_LIMIT) times, so at most that
\* many extractor calls and relevance calls are made, and a run that ends
\* without a relevant verdict returns None.
C6_LoopBound ==
    LET bound == Min(Len(search_results_list), SEARCH_RETRY_LIMIT)
    IN  /\ Len(selections) <= bound
        /\ Len(tried) <= bound
        /\ ncalls["scrape"] = Len(tried)
        /\ ncalls["scrape"] <= bound
        /\ ncalls["relevant"] = Len(judged)
        /\ ncalls["relevant"] <= bound
        /\ (pc = "p_done" /\ ~SomeVerdictRelevant) => pipeline_result = None

\* Five candidates, three tried and judged not relevant, None returned.
C6_LoopBoundWitness ==
    /\ pc = "p_done"
    /\ Len(search_results_list) = DUCKDUCKGO_MAX_RESULTS
    /\ ncalls["scrape"] = SEARCH_RETRY_LIMIT
    /\ ncalls["relevant"] = SEARCH_RETRY_LIMIT
    /\ pipeline_result = None

\* C7: when extraction fails for every candidate, the pipeline returns
\* NoContext and the REPL replaces the pending user Turn with one user Turn
\* holding the 'search failed' template around the input line.
C7_FailedSearchTurn ==
    (TurnEnded /\ SearchHappens(world) /\ ~world.extract) =>
        /\ pipeline_result = None
        /\ \E i \in 1..Len(conversation_history) :
              /\ conversation_history[i] =
                    UserTurn(prompt_informing_failed_search(user_input.v))
              /\ \A j \in (i + 1)..Len(conversation_history) :
                    conversation_history[j].role = "assistant"

\* C8: the classifier is given the conversation, one classification call is
\* issued for every accepted line, and a 'true' reply makes the pipeline run.
C8_ClassifierCalledPerLine ==
    /\ pc = "m_decide" => should_search_web_argument = List(conversation_history)
    /\ pc = "m_input" => ncalls["decide"] = Len(conversation_history) - 1
    /\ (TurnEnded /\ Truthy(TrueVerdict(world.decide))) => ncalls["query"] > 0

\* C9: decision true, a query, three candidates, ordinal 1 selected at once,
\* extraction and relevance succeed: the pending user Turn becomes the context
\* template around candidate 1's text and the input line, and the streamed
\* answer follows as an assistant Turn.
C9_EndToEnd ==
    (/\ TurnEnded
     /\ SearchHappens(world)
     /\ world.search = ThreeResults
     /\ world.select = Str(IntText(1))
     /\ world.extract
     /\ Truthy(is_content_relevant(PageText(URL(1)), world.relevant))
     /\ world.stream # None)
    => /\ Len(conversation_history) >= 3
       /\ Last(conversation_history) = [role |-> "assistant", content |-> world.stream.v]
       /\ conversation_history[Len(conversation_history) - 1] =
             UserTurn(prompt_with_context(PageText(URL(1)), user_input.v))

\* C10: when query synthesis yields no query the run returns None having
\* issued the synthesis call and no other call.
C10_NoCallAfterFailedQuery ==
    (pc # "p_query" /\ ~Truthy(generated_query)) =>
        /\ pc = "p_done"
        /\ pipeline_result = None
        /\ ncalls = [k \in CallKinds |-> IF k = "query" THEN 1 ELSE 0]

\* The model answered with an empty pair of quotes: no query is left.
C10_EmptyQueryWitness ==
    /\ pc = "p_done"
    /\ generated_query = Str(<< >>)
    /\ ncalls["query"] = 1

\* Whether a response document holds a block that yields a result: one with a
\* title link among the first DUCKDUCKGO_MAX_RESULTS blocks.
HasUsableBlock(blocks) ==
    \E i \in 1..Len(blocks) : i <= DUCKDUCKGO_MAX_RESULTS /\ blocks[i].href # None

\* C11: when the search request fails, or the page has no usable result,
\* perform_duckduckgo_search gives the empty list and the run returns None at
\* once: no selection, extraction or relevance call is made.
C11_FailedSearchEndsRun ==
    (search_response # None
        /\ (~search_response.ok \/ ~HasUsableBlock(search_response.blocks)))
    => /\ search_results_list = << >>
       /\ pc = "p_done"
       /\ pipeline_result = None
       /\ ncalls["search"] = 1
       /\ ncalls["select"] = 0
       /\ ncalls["scrape"] = 0
       /\ ncalls["relevant"] = 0

\* A run whose search request failed under an HTTP error status has ended.
C11_FailedSearchWitness ==
    /\ search_response # None
    /\ ~search_response.ok
    /\ Len(search_response.blocks) > 0
    /\ pc = "p_done"

FnDone(name) == pc = "f_done" /\ fn_call.fn = name

NotUnderscore(c) == c # "_"

RECURSIVE DropZeros(_)
DropZeros(s) == IF Len(s) > 1 /\ s[1] = "0" THEN DropZeros(Tail(s)) ELSE s

\* A text that is the number k written out: the decimal digits of k, after
\* any leading zeros, with single underscores allowed between digits.
WritesOut(text, k) ==
    /\ Len(text) > 0
    /\ text[1] # "_"
    /\ text[Len(text)] # "_"
    /\ \A i \in 1..(Len(text) - 1) : ~(text[i] = "_" /\ text[i + 1] = "_")
    /\ DropZeros(SelectSeq(text, NotUnderscore)) = NatText(k)

\* A text that reads as the number k >= 0: k written out, after a plus sign
\* or none, or after a minus sign when k is 0.
ReadsAs(text, k) ==
    \/ WritesOut(text, k)
    \/ Len(text) > 1 /\ text[1] = "+" /\ WritesOut(Tail(text), k)
    \/ Len(text) > 1 /\ text[1] = "-" /\ k = 0 /\ WritesOut(Tail(text), k)

\* The characters that may surround a number in a reply: blank, tab, newline,
\* vertical tab, form feed, carriage return, next line, no-break space.
NumberPadding == {" ", "\t", "\n", "", "\f", "\r", "", " "}

\* A reply that is the text of a position of the list: an integer k written
\* in decimal, with whatever padding around it, for some
\* 0 <= k < len(search_results).
NamesPosition(reply, search_results, k) ==
    /\ reply # None
    /\ k \in 0..(Len(search_results) - 1)
    /\ \E a \in 1..Len(reply.v) : \E b \in a..Len(reply.v) :
         /\ \A i \in 1..(a - 1) : reply.v[i] \in NumberPadding
         /\ \A i \in (b + 1)..Len(reply.v) : reply.v[i] \in NumberPadding
         /\ ReadsAs(SubSeq(reply.v, a, b), k)

\* C12: select_best_search_result_id returns an integer k only when the
\* reply to its last attempt is the text of k and 0 <= k < len(search_results);
\* it asks again only after a reply that names no position; after
\* SEARCH_RETRY_LIMIT such replies it returns None; it never raises.
C12_SelectionValidOrNone ==
    FnDone("select_best_search_result_id") =>
        LET l == fn_call.search_results
            rs == fn_call.replies
            n == fn_result.calls
        IN  /\ ~fn_result.raised
            /\ n <= SEARCH_RETRY_LIMIT
            /\ ncalls["select"] = n
            /\ \A j \in 1..(n - 1) : \A k \in 0..MaxBlocks : ~NamesPosition(rs[j], l, k)
            /\ IF fn_result.value = None
               THEN \/ n = 0 /\ l = << >>
                    \/ /\ n = SEARCH_RETRY_LIMIT
                       /\ \A k \in 0..MaxBlocks : ~NamesPosition(rs[n], l, k)
               ELSE /\ fn_result.value.t = "int"
                    /\ n >= 1
                    /\ NamesPosition(rs[n], l, fn_result.value.v)

\* Two replies that name no position, then one that does.
C12_ThirdAttemptWitness ==
    /\ FnDone("select_best_search_result_id")
    /\ fn_result.calls = SEARCH_RETRY_LIMIT
    /\ fn_result.value = IntV(1)

\* A conversation whose last Turn is a user Turn.
EndsWithUserTurn(conversation) ==
    /\ conversation.t = "list"
    /\ Len(conversation.v) > 0
    /\ conversation.v[Len(conversation.v)].role = "user"

\* C13: on a conversation that is empty, or whose last Turn is not a user
\* Turn, should_search_web returns False and calls no model.
C13_NoUserTurnNoCall ==
    (FnDone("should_search_web")
        /\ (fn_call.conversation.t = "list" \/ fn_call.conversation.v = << >>)
        /\ ~EndsWithUserTurn(fn_call.conversation))
    => /\ ~fn_result.raised
       /\ fn_result.value = BoolV(FALSE)
       /\ fn_result.calls = 0
       /\ ncalls = [k \in CallKinds |-> 0]

\* The call returned on a conversation that ends with an assistant Turn,
\* where the model would have answered True.
C13_NotUserWitness ==
    /\ FnDone("should_search_web")
    /\ fn_call.conversation.t = "list"
    /\ Len(fn_call.conversation.v) = 2
    /\ fn_call.conversation.v[2].role = "assistant"
    /\ fn_call.reply = Str(<< "T", "r", "u", "e" >>)

\* The reply of a call that succeeded holds the letters t, r, u, e in a row,
\* each in either case.
SaysTrue(reply) ==
    /\ reply # None
    /\ \E i \in 1..(Len(reply.v) - 3) :
         /\ reply.v[i] \in { "t", "T" }
         /\ reply.v[i + 1] \in { "r", "R" }
         /\ reply.v[i + 2] \in { "u", "U" }
         /\ reply.v[i + 3] \in { "e", "E" }

\* C14: should_search_web, when it asks the model, and is_content_relevant
\* give a true verdict exactly when the call succeeded and the reply contains
\* 'true' in any case; a failed call, an empty reply and a reply without
\* 'true' give a false one.
C14_VerdictIffSaysTrue ==
    ((FnDone("should_search_web") /\ EndsWithUserTurn(fn_call.conversation))
        \/ FnDone("is_content_relevant"))
    => /\ ~fn_result.raised
       /\ fn_result.calls = 1
       /\ Truthy(fn_result.value) <=> SaysTrue(fn_call.reply)

\* An upper-case TRUE made the relevance gate accept.
C14_UpperCaseWitness ==
    /\ FnDone("is_content_relevant")
    /\ fn_call.reply = Str(<< "T", "R", "U", "E" >>)
    /\ Truthy(fn_result.value)

QuoteChars == { "\"", "'" }

\* The text with the one layer of quotes around it taken off.
OneLayerOff(s) ==
    IF Len(s) >= 2 /\ s[1] \in QuoteChars /\ s[Len(s)] = s[1] THEN Inner(s) ELSE s

\* C15: generate_search_query returns the model's text with exactly one layer
\* of quotes taken off when its first and last characters are the same quote
\* character, and unchanged otherwise: never more than one layer, and quotes
\* that do not pair up at the two ends stay.  (A text that is one quote
\* character alone is left out of the statement.)
C15_AtMostOneQuoteLayer ==
    (FnDone("generate_search_query") /\ Truthy(fn_call.reply)
        /\ Len(fn_call.reply.v) >= 2)
    => fn_result.value = Str(OneLayerOff(fn_call.reply.v))

\* C16: when the streaming call fails, before the first token or in the
\* middle of the stream, the error message is printed, no assistant Turn is
\* appended, the history is as it was when the call began, and the call
\* returns to the loop that made it.
C16_FailedStreamLeavesHistory ==
    (fn_call # None /\ fn_call.fn = "stream_and_record_assistant_response"
        /\ fn_result # None /\ fn_result.failed)
    => /\ pc = "st_returned"
       /\ ~fn_result.raised
       /\ stdout # << >> /\ Last(stdout) = StreamError
       /\ conversation_history = fn_call.history

\* The stream failed after it had yielded two tokens.
C16_MidStreamWitness ==
    /\ pc = "st_returned"
    /\ fn_result # None /\ fn_result.failed
    /\ Len(complete_response_content) = 2
    /\ Len(conversation_history) > 2

PipelinePositions ==
    { "p_query", "p_search", "p_select", "p_remove", "p_scrape", "p_relevant", "p_done" }

\* C17: whatever fails inside a run of run_ai_search_pipeline (a model call,
\* a reply that names no candidate, the search, the extraction, the relevance
\* check), no exception leaves the run: it goes on with its fallback until it
\* returns, either None or the text of a page.
C17_PipelineFailuresContained ==
    /\ pc # "p_raised"
    /\ pc \in PipelinePositions
    /\ pc # "p_done" => pipeline_result = Running /\ ENABLED PipelineNext
    /\ pc = "p_done" => pipeline_result = None \/ ReturnedContext

\* A run that met a failed selection, a failed extraction and a rejected
\* page, and still returned the text of the third candidate.
C17_DegradedRunWitness ==
    /\ pc = "p_done"
    /\ ReturnedContext
    /\ selections[1] = None
    /\ Len(tried) = SEARCH_RETRY_LIMIT
    /\ Len(judged) = 2
    /\ ~judged[1].relevant

\* One list is the other with exactly one element appended.
AppendsOne(before, after) ==
    /\ Len(after) = Len(before) + 1
    /\ SubSeq(after, 1, Len(before)) = before

\* A step in which a KeyboardInterrupt is delivered.
Interrupted == signal' # signal

\* C18: the history only ever changes by the append of one whole Turn, and a
\* KeyboardInterrupt, wherever in the turn it is delivered, changes nothing
\* of it: after the interrupt the history is as the last append left it. No
\* turn gets to the pipeline, the replacement of the pending Turn or the
\* streaming call (lines 402-435), so no interrupt finds a Turn popped and
\* not yet replaced.
C18_InterruptKeepsHistory ==
    [][/\ conversation_history' # conversation_history
          => AppendsOne(conversation_history, conversation_history')
       /\ Interrupted => conversation_history' = conversation_history
       /\ pc' \notin { "m_pipeline", "m_stream" }]_vars

\* The loop was interrupted while the second accepted line was processed.
C18_InterruptedTurnWitness ==
    /\ signal = "turn"
    /\ pc = "m_exit"
    /\ Len(conversation_history) = 3
    /\ Last(conversation_history) = UserTurn(user_input.v)

\* C19: a KeyboardInterrupt delivered at input() is caught, and its handler,
\* when no further interrupt is delivered, ends the loop (main returns, no
\* exception leaves it); the history keeps every Turn it had.
C19_InterruptAtInputEndsLoop ==
    [][/\ (Interrupted /\ signal' = "input")
          => /\ pc = "m_input"
             /\ pc' = "m_interrupted"
             /\ conversation_history' = conversation_history
       /\ (pc = "m_interrupted" /\ signal = "input" /\ ~Interrupted)
          => /\ pc' = "m_exit"
             /\ conversation_history' = conversation_history]_vars

\* The loop was interrupted at input() after two lines had been accepted.
C19_InterruptAtInputWitness ==
    /\ signal = "input"
    /\ pc = "m_exit"
    /\ Len(conversation_history) = 3

\* Two texts that differ at most in the case of their letters.
SameLetters(a, b) ==
    /\ Len(a) = Len(b)
    /\ \A i \in 1..Len(a) :
         \/ a[i] = b[i]
         \/ \E k \in 1..26 : { a[i], b[i] } = { UpperLetters[k], LowerLetters[k] }

\* The white space of a line: blank, tab, newline, vertical tab, form feed,
\* carriage return, the separators U+001C-U+001F, next line, no-break space.
WhiteSpace ==
    {" ", "\t", "\n", "", "\f", "\r", "", "", "", "", "", " "}

\* A step in which the line input() returned is examined (lines 388-396).
LineChecked == pc = "m_read" /\ signal' = signal

\* C20: a line that is quit or exit in any case ends the loop and leaves the
\* history as it is; a line of whitespace only changes nothing and input() is
\* called again; any other line adds exactly one user Turn whose content is
\* the line as typed.
C20_LineHandling ==
    [][/\ (pc = "m_input" /\ pc' = "m_read")
          => conversation_history' = conversation_history
       /\ LineChecked =>
             LET line == user_input.v
             IN  IF SameLetters(line, Quit) \/ SameLetters(line, Exit)
                 THEN pc' = "m_quit" /\ conversation_history' = conversation_history
                 ELSE IF \A i \in 1..Len(line) : line[i] \in WhiteSpace
                 THEN pc' = "m_continue" /\ conversation_history' = conversation_history
                 ELSE /\ conversation_history' = Append(conversation_history, UserTurn(line))
                      /\ pc' = "m_assign"
       /\ (pc = "m_quit" /\ signal' = signal)
          => pc' = "m_exit" /\ conversation_history' = conversation_history
       /\ (pc = "m_continue" /\ signal' = signal)
          => pc' = "m_input" /\ conversation_history' = conversation_history]_vars

\* EXIT in upper case ended a session in which a line with a leading blank
\* had been accepted as typed.
C20_UpperCaseExitWitness ==
    /\ pc = "m_exit"
    /\ user_input = Str(<< "E", "X", "I", "T" >>)
    /\ Len(conversation_history) = 2
    /\ conversation_history[2] = UserTurn(<< " ", "q", "u", "i", "t" >>)

\* The (1-based) place in the page of the block a result was made from.
BlockOf(result, blocks) ==
    CHOOSE p \in 1..Len(blocks) : blocks[p].href = Str(result.link)

\* C21: perform_duckduckgo_search returns at most 5 results, each made from
\* a block of the page that has a title link, in the order of their blocks.
C21_CappedLinkedInOrder ==
    FnDone("perform_duckduckgo_search") =>
        LET blocks == fn_call.response.blocks
            results == fn_result.value
        IN  /\ Len(results) <= 5
            /\ \A i \in 1..Len(results) :
                 \E p \in 1..Len(blocks) : blocks[p].href = Str(results[i].link)
            /\ \A i, j \in 1..Len(results) :
                 i < j => BlockOf(results[i], blocks) < BlockOf(results[j], blocks)

\* A page of seven blocks, the third without a title link, gave four results.
C21_LongPageWitness ==
    /\ FnDone("perform_duckduckgo_search")
    /\ Len(fn_call.response.blocks) = 7
    /\ fn_call.response.blocks[3].href = None
    /\ Len(fn_result.value) = 4

\* C22: the results carry the ordinals 0, 1, 2, ... in the order returned,
\* with no gap, also when blocks of the page were skipped.
C22_SequentialOrdinals ==
    FnDone("perform_duckduckgo_search") =>
        \A i \in 1..Len(fn_result.value) : fn_result.value[i].id = i - 1

\* C23: every step leaves conversation_history as it is or appends one Turn
\* to it, so the Turns it holds are never modified, removed or reordered; no
\* step replaces the last Turn (the pop and append of lines 406-428 are never
\* reached), and no step of run_ai_search_pipeline changes the history at all.
C23_HistoryFrame ==
    [][/\ \/ conversation_history' = conversation_history
          \/ AppendsOne(conversation_history, conversation_history')
       /\ pc \in PipelinePositions => conversation_history' = conversation_history
       /\ pc' \notin { "m_pipeline", "m_stream" }]_vars

\* main has appended the user Turn of a second accepted line.
C23_SecondAppendWitness ==
    /\ pc = "m_decide"
    /\ Len(conversation_history) = 3
    /\ signal = "none"

\* What the stream printed between its header and its closing blank lines.
TokensEmitted == SubSeq(stdout, 2, Len(stdout) - 1)

\* C24: when the stream has ended without a failure, exactly one Turn has been
\* appended to the history the call found: an assistant Turn whose content is
\* the tokens printed during the stream, in the order they came; it is the
\* last Turn of the history.
C24_StreamedTextRecorded ==
    (pc = "st_returned" /\ ~fn_result.failed /\ fn_call.history # << >>)
    => /\ stdout[1] = StreamHeader
       /\ Last(stdout) = "\n\n"
       /\ conversation_history = Append(fn_call.history, AssistantTurn(TokensEmitted))
       /\ Last(conversation_history).role = "assistant"

\* A stream of the tokens b, a, a ended and was recorded after a user Turn.
C24_ThreeTokensWitness ==
    /\ pc = "st_returned"
    /\ ~fn_result.failed
    /\ Len(fn_call.history) = 2
    /\ Last(conversation_history).content = << "b", "a", "a" >>

NoRepeats(seq) == \A i, j \in 1..Len(seq) : seq[i] = seq[j] => i = j

\* C25: a candidate is off the working list from the moment it is chosen,
\* before its link goes to the extractor and whatever the trial gives: once j
\* candidates were taken, the working list holds the other n - j of the n
\* results of the search, and no candidate is extracted or judged twice.
C25_TriedCandidatesRemoved ==
    (search_response # None /\ Len(search_results_list) > 0) =>
        LET taken == IF pc = "p_scrape" THEN Append(tried, selected_result_details)
                     ELSE tried
        IN  /\ Len(available_results) = Len(search_results_list) - Len(taken)
            /\ Range(available_results) \cup Range(taken) = Range(search_results_list)
            /\ Range(available_results) \cap Range(taken) = { }
            /\ NoRepeats(taken)
            /\ NoRepeats(judged)
            /\ pc \in { "p_select", "p_remove" } => Len(taken) = loop_i

\* Three candidates of five were tried, the last two judged, none relevant.
C25_ThreeTakenWitness ==
    /\ pc = "p_done"
    /\ Len(search_results_list) = 5
    /\ Len(available_results) = 2
    /\ Len(judged) = 2
    /\ pipeline_result = None

\* The external calls one iteration of the loop makes at most, and its pop.
StepsOfIteration == SEARCH_RETRY_LIMIT + 3

\* The steps a run still has before it at most; -1 where a run that ends
\* cannot be (a selection attempt beyond the limit, an iteration beyond the
\* loop's bound).
StepsLeft ==
    LET later == StepsOfIteration * (loop_n - loop_i - 1)
    IN  IF pc = "p_done" THEN 0
        ELSE IF pc = "p_query" THEN StepsOfIteration * SEARCH_RETRY_LIMIT + 2
        ELSE IF pc = "p_search" THEN StepsOfIteration * SEARCH_RETRY_LIMIT + 1
        ELSE IF loop_i >= loop_n \/ attempt >= SEARCH_RETRY_LIMIT THEN 0 - 1
        ELSE IF pc = "p_select" THEN later + 3 + (SEARCH_RETRY_LIMIT - attempt)
        ELSE IF pc = "p_remove" THEN later + 3
        ELSE IF pc = "p_scrape" THEN later + 2
        ELSE IF pc = "p_relevant" THEN later + 1
        ELSE 0 - 1

\* C26: when every external call returns or fails in finite time, a run of
\* run_ai_search_pipeline comes to its return, whatever the calls give: every
\* step brings it nearer, and it gets there.
C26_RunTerminates ==
    /\ <>(pc = "p_done")
    /\ [][StepsLeft' < StepsLeft /\ StepsLeft' >= 0]_vars

\* The longest run: nine selection calls, three extractions, three verdicts.
C26_LongestRunWitness ==
    /\ pc = "p_done"
    /\ ncalls["select"] = 3 * SEARCH_RETRY_LIMIT
    /\ ncalls["scrape"] = 3
    /\ ncalls["relevant"] = 3

\* C27: the integer select_best_search_result_id returned is a valid index
\* of the working list when the candidate is removed: list.pop raises no
\* IndexError, the candidate removed is the one at that index, and the first
\* candidate is taken instead only when None was returned.
C27_SelectedIndexValid ==
    (pc = "p_remove" /\ best_result_id # None) =>
        /\ best_result_id.v \in 0..(Len(available_results) - 1)
        /\ PopInRange(available_results, best_result_id.v)
        /\ RemovalIndex = best_result_id.v
        /\ Popped(available_results, RemovalIndex) = available_results[best_result_id.v + 1]

\* In the third iteration the last of the three remaining candidates is named.
C27_LastPositionWitness ==
    /\ pc = "p_remove"
    /\ Len(tried) = 2
    /\ Len(available_results) = 3
    /\ best_result_id = IntV(2)

\* main has returned, or an exception has left it.
Ended == pc \in { "m_exit", "m_escaped" }

\* C28: the loop ends only after a quit or exit line was read (lines
\* 389-390), in the handler of a KeyboardInterrupt (lines 438-439), or in a
\* step in which a KeyboardInterrupt is delivered and caught by nothing;
\* after any other exception, one raised by input() included, the handler
\* goes back to input().
C28_EndsOnlyOnQuitOrInterrupt ==
    [][/\ (~Ended /\ Ended') => (Interrupted \/ pc \in { "m_quit", "m_interrupted" })
       /\ (pc # "m_interrupted" /\ pc' = "m_interrupted") => Interrupted
       /\ (pc # "m_quit" /\ pc' = "m_quit")
          => /\ LineChecked
             /\ SameLetters(user_input.v, Quit) \/ SameLetters(user_input.v, Exit)
       /\ (pc = "m_except" /\ ~Interrupted) => pc' = "m_input"
       /\ (pc = "m_input" /\ pc' = "m_except") => UNCHANGED << conversation_history, signal >>]_vars

\* input() has raised three times, with no line ever accepted, and the loop
\* is at input() again.
C28_InputExhaustedWitness ==
    /\ pc = "m_input"
    /\ Len(stdout) = 3
    /\ Len(conversation_history) = 1

\* C29: the history is never empty and its first Turn is the one the module
\* starts it with, sys_msgs.asistant_msg; the pop of line 406 is never
\* reached, and while an accepted line is being processed the Turn at the end
\* of the history, the one that pop would take, is the user Turn of that line.
C29_InitialTurnFirst ==
    /\ Len(conversation_history) >= 1
    /\ conversation_history[1] = asistant_msg
    /\ pc # "m_pipeline"
    /\ pc \in { "m_assign", "m_decide" }
       => /\ Len(conversation_history) >= 2
          /\ Last(conversation_history) = UserTurn(user_input.v)

\* The call on the third accepted line has raised; its Turn is still the last.
C29_PendingTurnWitness ==
    /\ pc = "m_except"
    /\ Len(conversation_history) = 4
    /\ Last(conversation_history) = UserTurn(user_input.v)

====
